---- MODULE Spec2Model ----
(***************************************************************************)
(* The release-triage scripts of tasks/release: the branch-strategy CLI,   *)
(* the triage-main and triage-next handlers, getReleaseCommits and the     *)
(* helpers of releaseLib.mjs they call.                                    *)
(*                                                                         *)
(* A JavaScript string is a sequence of one-character strings, so that     *)
(* startsWith, includes, replace, trim, split and the regular expressions  *)
(* are computed character by character, as the code computes them.         *)
(***************************************************************************)
EXTENDS Integers, Sequences, FiniteSets, TLC

VARIABLES
    command,        \* the subcommand yargs dispatches to
    currentBranch,  \* stdout of `git branch --show-current`
    branchList,     \* stdout of `git branch --list release/*`
    gitLog,         \* stdout of `git log <options> <left>...<right>`
    grepMemo,       \* answers of `git log <ref> --oneline --grep <pattern>` so far
    file,           \* the cache file of the command (data/triage*Data.json)
    pc,             \* position of the process
    exitCode,       \* exit status of the process, -1 while it runs
    hook,           \* whether setupData registered its process.on('exit') handler
    data,           \* the Map setupData returned
    from,           \* this.from of mungeCommits
    to,             \* this.to of mungeCommits
    stdout,         \* the lines getSymmetricDifference returned
    commits,        \* the array mungeCommits builds
    j,              \* mungeCommits: index into this.to for the last pushed commit
    releaseCommits, \* the handler's filtered commits
    k,              \* triageCommits: index of the commit being asked
    answer,         \* triageCommits: the last answer typed, "none" before any
    calls,          \* external commands run by mungeCommits, in order
    console,        \* what the handler reported
    loaded,         \* the Map setupData returns to the run after this one
    missingCommits, \* compareMinorToPatch: the lines parseCommit has parsed
    run,            \* the number of this run of the command, from 1
    runs,           \* two invocations on one cache file: the state of each
    matched,        \* the babel plugin: what glob.sync returned
    nodes,          \* the babel plugin: the nodes inserted before the import
    typeExports     \* the babel plugin: the lines of the declaration file

vars == <<command, currentBranch, branchList, gitLog, grepMemo, file, pc,
          exitCode, hook, data, from, to, stdout, commits, j, releaseCommits,
          k, answer, calls, console, loaded, missingCommits, run, runs,
          matched, nodes, typeExports>>

\* the variables of the babel plugin and of the runs side by side or in a row
others == <<run, runs, matched, nodes, typeExports>>

-----------------------------------------------------------------------------
(* Bounds of the model.                                                    *)

\* longest `git log` listing, in lines
MaxLines == 2
\* most entries of a cache file
MaxEntries == 2

-----------------------------------------------------------------------------
(* Strings.                                                                *)

MAIN == <<"m", "a", "i", "n">>
NEXT == <<"n", "e", "x", "t">>
\* 'branch-strategy-triage'
TRIAGE_BRANCH == <<"b", "r", "a", "n", "c", "h", "-", "s", "t", "r", "a", "t", "e", "g", "y", "-", "t", "r", "i", "a", "g", "e">>
\* 'Merge branch ', ' into next': the literal parts of /Merge branch (?<branch>.*) into next/
MERGE_BRANCH == <<"M", "e", "r", "g", "e", " ", "b", "r", "a", "n", "c", "h", " ">>
INTO_NEXT == <<" ", "i", "n", "t", "o", " ", "n", "e", "x", "t">>
\* 'chore: update yarn.lock'
CHORE_YARN == <<"c", "h", "o", "r", "e", ":", " ", "u", "p", "d", "a", "t", "e", " ", "y", "a", "r", "n", ".", "l", "o", "c", "k">>
\* 'Version docs'
VERSION_DOCS == <<"V", "e", "r", "s", "i", "o", "n", " ", "d", "o", "c", "s">>
\* 'chore: update all contributors'
CHORE_CONTRIB == <<"c", "h", "o", "r", "e", ":", " ", "u", "p", "d", "a", "t", "e", " ", "a", "l", "l", " ", "c", "o", "n", "t", "r", "i", "b", "u", "t", "o", "r", "s">>

\* the value of a property that was never assigned
Undefined == <<"undefined">>

Digit == {"0", "1", "2", "3", "4", "5", "6", "7", "8", "9"}
Lower == {"a", "b", "c", "d", "e", "f", "g", "h", "i", "j", "k", "l", "m",
          "n", "o", "p", "q", "r", "s", "t", "u", "v", "w", "x", "y", "z"}
Upper == {"A", "B", "C", "D", "E", "F", "G", "H", "I", "J", "K", "L", "M",
          "N", "O", "P", "Q", "R", "S", "T", "U", "V", "W", "X", "Y", "Z"}
\* \w, \s and the line terminators that . does not match
Word == Digit \cup Lower \cup Upper \cup {"_"}
Space == {" ", "\t", "\n", "\r"}
LineTerminator == {"\n", "\r"}

\* String.prototype.startsWith
StartsWith(s, p) == Len(s) >= Len(p) /\ \A x \in 1..Len(p) : s[x] = p[x]

\* whether p occurs in s at position n
OccursAt(s, p, n) == n + Len(p) - 1 <= Len(s) /\ \A x \in 1..Len(p) : s[n + x - 1] = p[x]

\* String.prototype.includes
Includes(s, p) == \E n \in 1..(Len(s) + 1) : OccursAt(s, p, n)

\* String.prototype.indexOf, 1-based, 0 when absent
IndexOf(s, p) ==
    IF Includes(s, p)
    THEN CHOOSE n \in 1..(Len(s) + 1) :
            OccursAt(s, p, n) /\ \A m \in 1..(n - 1) : ~OccursAt(s, p, m)
    ELSE 0

\* String.prototype.replace with a string pattern: the first occurrence only
ReplaceFirst(s, p, r) ==
    LET n == IndexOf(s, p)
    IN  IF n = 0 THEN s
        ELSE SubSeq(s, 1, n - 1) \o r \o SubSeq(s, n + Len(p), Len(s))

\* String.prototype.trim
Trim(s) ==
    LET keep == {n \in 1..Len(s) : s[n] \notin Space}
    IN  IF keep = {} THEN <<>>
        ELSE SubSeq(s, CHOOSE n \in keep : \A m \in keep : n <= m,
                       CHOOSE n \in keep : \A m \in keep : n >= m)

\* String.prototype.split('\n')
RECURSIVE Split(_)
Split(s) ==
    LET n == IndexOf(s, <<"\n">>)
    IN  IF n = 0 THEN <<s>>
        ELSE <<SubSeq(s, 1, n - 1)>> \o Split(SubSeq(s, n + 1, Len(s)))

\* Array.prototype.join('\n')
RECURSIVE Join(_)
Join(lines) ==
    IF lines = <<>> THEN <<>>
    ELSE IF Len(lines) = 1 THEN lines[1]
    ELSE lines[1] \o <<"\n">> \o Join(Tail(lines))

-----------------------------------------------------------------------------
(* releaseLib.mjs: the pure helpers.                                       *)

\* the width of the hash in HASH = /\s(?<hash>\w{40})\s/
HashWidth == 40

\* Marks used in `git log --graph` that are just UI.
MARKS == << <<"o">>, <<" ", "/">>, <<"|", "\\">>, <<"|", " ", "o">>, <<"|", "\\", "|">> >>

\* isLineUI without the boundary mark 'o'
isLineUI_NoBoundary(line) == \E m \in 2..Len(MARKS) : StartsWith(line, MARKS[m])

isLineUI(line) == \E m \in 1..Len(MARKS) : StartsWith(line, MARKS[m])

\* where HASH matches in line: a \s, HashWidth \w, a \s; 0 when it does not
HashMatchAt(line, n) ==
    /\ n + HashWidth + 1 <= Len(line)
    /\ line[n] \in Space
    /\ \A m \in (n + 1)..(n + HashWidth) : line[m] \in Word
    /\ line[n + HashWidth + 1] \in Space

HASH(line) ==
    LET at == {n \in 1..Len(line) : HashMatchAt(line, n)}
    IN  IF at = {} THEN 0 ELSE CHOOSE n \in at : \A m \in at : n <= m

\* line.match(HASH).groups.hash, for a line HASH matches
HashGroup(line) == SubSeq(line, HASH(line) + 1, HASH(line) + HashWidth)

\* PR = /#(?<pr>\d+)/ : message.match(PR)?.groups.pr
PR(message) ==
    LET at == {n \in 1..(Len(message) - 1) :
                    message[n] = "#" /\ message[n + 1] \in Digit}
    IN  IF at = {} THEN Undefined
        ELSE LET n == CHOOSE x \in at : \A m \in at : x <= m
                 last == CHOOSE e \in (n + 1)..Len(message) :
                            /\ \A m \in (n + 1)..e : message[m] \in Digit
                            /\ (e = Len(message) \/ message[e + 1] \notin Digit)
             IN  SubSeq(message, n + 1, last)

\* /Merge branch (?<branch>.*) into next/.test(line)
MergeIntoNext(line) ==
    \E n \in 1..Len(line) :
        /\ OccursAt(line, MERGE_BRANCH, n)
        /\ \E e \in (n + Len(MERGE_BRANCH))..Len(line) :
            /\ OccursAt(line, INTO_NEXT, e)
            /\ \A m \in (n + Len(MERGE_BRANCH))..(e - 1) : line[m] \notin LineTerminator

\* isCommitChore without its last alternative
isCommitChore_NoContributors(line) ==
    \/ MergeIntoNext(line)
    \/ Includes(line, CHORE_YARN)
    \/ Includes(line, VERSION_DOCS)

isCommitChore(line) ==
    \/ MergeIntoNext(line)
    \/ Includes(line, CHORE_YARN)
    \/ Includes(line, VERSION_DOCS)
    \/ Includes(line, CHORE_CONTRIB)

\* ANNOTATED_TAG_MESSAGE = /^v\d.\d.\d$/ : a dot of the pattern is any character
ANNOTATED_TAG_MESSAGE(message) ==
    /\ Len(message) = 6
    /\ message[1] = "v"
    /\ message[2] \in Digit
    /\ message[3] \notin LineTerminator
    /\ message[4] \in Digit
    /\ message[5] \notin LineTerminator
    /\ message[6] \in Digit

\* the width of the abbreviated hash parseCommit looks for: /\w{9}/
AbbrevWidth == 9

\* commit.match(/\w{9}/).index, 1-based: the start of the first run of
\* nine word characters, 0 when match returns null
AbbrevIndex(commit) ==
    LET at == {n \in 1..(Len(commit) - AbbrevWidth + 1) :
                \A m \in n..(n + AbbrevWidth - 1) : commit[m] \in Word}
    IN  IF at = {} THEN 0 ELSE CHOOSE n \in at : \A m \in at : n <= m

\* parseCommit: `const [hash] = match` throws a TypeError when match is null
parseCommit(commit) ==
    LET index == AbbrevIndex(commit)
        message == SubSeq(commit, index + AbbrevWidth + 1, Len(commit))
    IN  IF index = 0
        THEN [threw |-> TRUE, hash |-> Undefined, message |-> Undefined, pr |-> Undefined]
        ELSE [threw |-> FALSE,
              hash |-> SubSeq(commit, index, index + AbbrevWidth - 1),
              message |-> message,
              pr |-> PR(message)]

sanitizeMessage(message) ==
    ReplaceFirst(ReplaceFirst(message, <<"[">>, <<"\\", "[">>), <<"]">>, <<"\\", "]">>)

\* isYes that takes every answer but "n" for a yes
isYes_NotNo(res) == res # "n"

\* isYes without the empty answer
isYes_NoEmpty(res) == res \in {"Y", "y"}

isYes(res) == res \in {"", "Y", "y"}

-----------------------------------------------------------------------------
(* The environment: the repository git reports on, and the cache file.     *)

\* a full (--no-abbrev-commit) hash: HashWidth times the same character
Hash(c) == [n \in 1..HashWidth |-> c]

\* 'v3.4.1', 'v3.5.0': the tags `git tag -l` lists for getReleaseCommits
TAG_PATCH == <<"v", "3", ".", "4", ".", "1">>
TAG_LATEST == <<"v", "3", ".", "5", ".", "0">>
\* 'release/v4', 'release/v5'
RELEASE_BRANCH == <<"r", "e", "l", "e", "a", "s", "e", "/", "v", "4">>
OTHER_RELEASE_BRANCH == <<"r", "e", "l", "e", "a", "s", "e", "/", "v", "5">>

\* subjects of the commits of the repository
\* 'fix: notes (#42)'
MSG_FIX == <<"f", "i", "x", ":", " ", "n", "o", "t", "e", "s", " ", "(", "#", "4", "2", ")">>
\* 'fix [a] [b]'
MSG_SKIP == <<"f", "i", "x", " ", "[", "a", "]", " ", "[", "b", "]">>
\* 'update yarn.lock'
MSG_YARN == <<"u", "p", "d", "a", "t", "e", " ", "y", "a", "r", "n", ".", "l", "o", "c", "k">>
\* "Merge branch 'main' into next"
MSG_MERGE == <<"M", "e", "r", "g", "e", " ", "b", "r", "a", "n", "c", "h", " ", "'", "m", "a", "i", "n", "'", " ", "i", "n", "t", "o", " ", "n", "e", "x", "t">>
\* 'v3.5.0', 'v3.10.0', 'v1x2y3'
MSG_TAG == <<"v", "3", ".", "5", ".", "0">>
MSG_TAG_WIDE == <<"v", "3", ".", "1", "0", ".", "0">>
MSG_TAG_LOOSE == <<"v", "1", "x", "2", "y", "3">>

\* the commits of the repository: hash and subject (%s)
Repo ==
    { [hash |-> Hash("a"), subject |-> MSG_FIX],
      [hash |-> Hash("b"), subject |-> MSG_SKIP],
      [hash |-> Hash("c"), subject |-> CHORE_YARN],
      [hash |-> Hash("d"), subject |-> VERSION_DOCS],
      [hash |-> Hash("e"), subject |-> CHORE_CONTRIB],
      [hash |-> Hash("f"), subject |-> MSG_MERGE],
      [hash |-> Hash("1"), subject |-> MSG_YARN],
      [hash |-> Hash("2"), subject |-> MSG_TAG],
      [hash |-> Hash("3"), subject |-> MSG_TAG_WIDE],
      [hash |-> Hash("4"), subject |-> MSG_TAG_LOOSE],
      [hash |-> Hash("5"), subject |-> CHORE_YARN],
      [hash |-> Hash("6"), subject |-> MSG_FIX] }

SubjectOf(hash) == (CHOOSE c \in Repo : c.hash = hash).subject

\* a line of `git log --oneline --no-abbrev-commit --left-right --graph`:
\* the graph column, the hash, the subject
LogLine(graph, c) == graph \o <<" ">> \o Hash(c) \o <<" ">> \o SubjectOf(Hash(c))

\* commits of the left side
CommitLines == {LogLine(<<"<">>, c) : c \in {"a", "b", "c", "d", "e", "f", "1", "2", "3", "4"}}

\* boundary commits (--boundary) and graph connectors
GraphLines ==
    { LogLine(<<"o">>, "5"), LogLine(<<"|", " ", "o">>, "6"),
      <<"|", "\\">>, <<"|", "\\", "|">>, <<" ", "/">> }

\* the lines a small triage session meets
CoreLines ==
    { LogLine(<<"<">>, "a"), LogLine(<<"<">>, "b"), LogLine(<<"<">>, "c"),
      LogLine(<<"o">>, "5") }

RECURSIVE Listings(_, _)
Listings(lines, n) ==
    IF n = 0 THEN {<<>>}
    ELSE LET shorter == Listings(lines, n - 1)
         IN  shorter \cup {Append(l, x) : l \in shorter, x \in lines}

\* what git writes for a listing: every line ends with a newline
LogText(listing) == IF listing = <<>> THEN <<>> ELSE Join(listing) \o <<"\n">>

\* the keys of the cache files: commits of the listing, and one that left it
CacheKeys == {Hash("a"), Hash("b"), Hash("9")}

Entries == [message : {MSG_FIX}, needsCherryPick : BOOLEAN]

CacheObjects ==
    UNION {[ks -> Entries] : ks \in {s \in SUBSET CacheKeys : Cardinality(s) <= MaxEntries}}

NoFile == [kind |-> "missing", obj |-> <<>>, arr |-> <<>>]

\* a cache file: missing, not JSON, or JSON of some kind
Files ==
    {NoFile}
      \cup {[kind |-> x, obj |-> <<>>, arr |-> <<>>] : x \in {"malformed", "null", "number"}}
      \cup {[kind |-> "array", obj |-> <<>>, arr |-> <<e>>] : e \in Entries}
      \cup {[kind |-> "object", obj |-> o, arr |-> <<>>] : o \in CacheObjects}

-----------------------------------------------------------------------------
(* releaseLib.mjs: the cache.                                              *)

\* the property names Object.entries gives the elements of an array
IndexKey(n) == <<(<<"0", "1", "2", "3", "4", "5", "6", "7", "8", "9">>)[n]>>

\* LoadData with the elements of an array numbered from 1
LoadData_OneBased(f) ==
    CASE f.kind = "object" -> f.obj
      [] f.kind = "array" -> [key \in {IndexKey(n + 1) : n \in 1..Len(f.arr)} |->
                                f.arr[CHOOSE n \in 1..Len(f.arr) : IndexKey(n + 1) = key]]
      [] OTHER -> <<>>

\* LoadData that never reads the file
LoadData_Unread(f) == <<>>

\* setupData's try block: JSON.parse(fs.readFileSync(path)), then
\* new Map(Object.entries(...)); any throw yields new Map()
LoadData(f) ==
    CASE f.kind = "object" -> f.obj
      [] f.kind = "array" -> [key \in {IndexKey(n) : n \in 1..Len(f.arr)} |->
                                f.arr[CHOOSE n \in 1..Len(f.arr) : IndexKey(n) = key]]
      [] OTHER -> <<>>

\* the 'exit' handler without Object.fromEntries: JSON.stringify of a Map is {}
ExitHook_Map(d) == [kind |-> "object", obj |-> <<>>, arr |-> <<>>]

\* the 'exit' handler: JSON.stringify(Object.fromEntries(dataFile), null, 2)
ExitHook(d) == [kind |-> "object", obj |-> d, arr |-> <<>>]

\* a set that is lost
MapSet_Lost(d, key, value) == d

\* Map.prototype.set
MapSet(d, key, value) ==
    [x \in DOMAIN d \cup {key} |-> IF x = key THEN value ELSE d[x]]

\* the map without the keys of a set
MapDelete(d, keys) == [x \in DOMAIN d \ keys |-> d[x]]

\* commits.find((commit) => commit.hash === hash)
FindCommit(cs, hash) ==
    cs[CHOOSE n \in 1..Len(cs) :
            cs[n].hash = hash /\ \A m \in 1..(n - 1) : cs[m].hash # hash]

\* purgeData with a first loop that stops after its first deletion
purgeData_OneDeletion(d, cs, branch) ==
    LET commitHashes == {cs[n].hash : n \in 1..Len(cs)}
        stale == {h \in DOMAIN d : h \notin commitHashes}
        kept == MapDelete(d, IF stale = {} THEN {} ELSE {CHOOSE h \in stale : TRUE})
        needsCherryPick == {h \in DOMAIN kept \cap commitHashes : kept[h].needsCherryPick}
    IN  MapDelete(kept, {h \in needsCherryPick : FindCommit(cs, h).ref = branch})

\* purgeData without its second loop
purgeData_KeepLanded(d, cs, branch) ==
    LET commitHashes == {cs[n].hash : n \in 1..Len(cs)}
    IN  MapDelete(d, {h \in DOMAIN d : h \notin commitHashes})

purgeData(d, cs, branch) ==
    LET commitHashes == {cs[n].hash : n \in 1..Len(cs)}
        kept == MapDelete(d, {h \in DOMAIN d : h \notin commitHashes})
        needsCherryPick == {h \in DOMAIN kept : kept[h].needsCherryPick}
    IN  MapDelete(kept, {h \in needsCherryPick : FindCommit(cs, h).ref = branch})

-----------------------------------------------------------------------------
(* The text of the cache file: JSON.stringify(value, null, 2) and          *)
(* JSON.parse, for the values the exit handler writes.                      *)

KEY_MESSAGE == <<"m", "e", "s", "s", "a", "g", "e">>
KEY_NEEDS == <<"n", "e", "e", "d", "s", "C", "h", "e", "r", "r", "y", "P", "i", "c", "k">>
JSON_TRUE == <<"t", "r", "u", "e">>
JSON_FALSE == <<"f", "a", "l", "s", "e">>
JSON_NULL == <<"n", "u", "l", "l">>
JSONWhitespace == {" ", "\n", "\t", "\r"}

\* QuoteJSONString without the escapes
QuoteJSONString_Raw(str) == <<"\"">> \o str \o <<"\"">>

RECURSIVE EscapeJSON(_)
\* the characters of a string as JSON.stringify writes them between quotes
EscapeJSON(str) ==
    IF str = <<>> THEN <<>>
    ELSE LET c == Head(str)
             out == CASE c = "\"" -> <<"\\", "\"">>
                      [] c = "\\" -> <<"\\", "\\">>
                      [] c = "\n" -> <<"\\", "n">>
                      [] c = "\t" -> <<"\\", "t">>
                      [] c = "\r" -> <<"\\", "r">>
                      [] OTHER -> <<c>>
         IN  out \o EscapeJSON(Tail(str))

\* QuoteJSONString of the ECMAScript specification
QuoteJSONString(str) == <<"\"">> \o EscapeJSON(str) \o <<"\"">>

\* Object.fromEntries(dataFile): the keys of the object in the order of its
\* properties. The Map's order of insertion is not kept by this model; the
\* order chosen here is arbitrary and the same for equal maps.
ObjectFromEntries(d) ==
    CHOOSE keys \in [1..Cardinality(DOMAIN d) -> DOMAIN d] :
        \A x, y \in 1..Cardinality(DOMAIN d) : keys[x] = keys[y] => x = y

\* one cache entry {message, needsCherryPick} at indentation 2
StringifyEntry(e) ==
    <<"{", "\n">>
      \o <<" ", " ", " ", " ">> \o QuoteJSONString(KEY_MESSAGE) \o <<":", " ">>
      \o QuoteJSONString(e.message) \o <<",", "\n">>
      \o <<" ", " ", " ", " ">> \o QuoteJSONString(KEY_NEEDS) \o <<":", " ">>
      \o (IF e.needsCherryPick THEN JSON_TRUE ELSE JSON_FALSE) \o <<"\n">>
      \o <<" ", " ", "}">>

RECURSIVE StringifyMembers(_, _, _)
StringifyMembers(d, keys, n) ==
    IF n > Len(keys) THEN <<>>
    ELSE <<" ", " ">> \o QuoteJSONString(keys[n]) \o <<":", " ">> \o StringifyEntry(d[keys[n]])
           \o (IF n < Len(keys) THEN <<",", "\n">> ELSE <<"\n">>)
           \o StringifyMembers(d, keys, n + 1)

\* JSON.stringify(Object.fromEntries(dataFile), null, 2)
JSONStringify(d) ==
    IF DOMAIN d = {} THEN <<"{", "}">>
    ELSE <<"{", "\n">> \o StringifyMembers(d, ObjectFromEntries(d), 1) \o <<"}">>

\* the result of a parser that fails
ParseError == [ok |-> FALSE, at |-> 0, type |-> "none", str |-> <<>>, bool |-> FALSE, members |-> <<>>]

\* the result of a parser that read a value and stopped before position at
Parsed(at, type, str, bool, members) ==
    [ok |-> TRUE, at |-> at, type |-> type, str |-> str, bool |-> bool, members |-> members]

RECURSIVE SkipWhitespace(_, _)
\* the first position from p on that holds no whitespace
SkipWhitespace(text, p) ==
    IF p <= Len(text) /\ text[p] \in JSONWhitespace THEN SkipWhitespace(text, p + 1) ELSE p

RECURSIVE ParseChars(_, _, _)
\* the characters of a JSON string from p on, up to its closing quote
ParseChars(text, p, acc) ==
    IF p > Len(text) \/ text[p] \in {"\n", "\r", "\t"} THEN ParseError
    ELSE IF text[p] = "\"" THEN Parsed(p + 1, "string", acc, FALSE, <<>>)
    ELSE IF text[p] # "\\" THEN ParseChars(text, p + 1, Append(acc, text[p]))
    ELSE IF p + 1 > Len(text) THEN ParseError
    ELSE LET e == text[p + 1]
         IN  CASE e \in {"\"", "\\", "/"} -> ParseChars(text, p + 2, Append(acc, e))
               [] e = "n" -> ParseChars(text, p + 2, Append(acc, "\n"))
               [] e = "t" -> ParseChars(text, p + 2, Append(acc, "\t"))
               [] e = "r" -> ParseChars(text, p + 2, Append(acc, "\r"))
               [] OTHER -> ParseError

\* a JSON string at p
ParseString(text, p) ==
    IF p <= Len(text) /\ text[p] = "\"" THEN ParseChars(text, p + 1, <<>>) ELSE ParseError

RECURSIVE ParseValue(_, _)
RECURSIVE ParseMembers(_, _, _)
\* the members of a JSON object from p on, up to its closing brace; acc
\* holds the members read so far (a key read twice keeps its last value)
ParseMembers(text, p, acc) ==
    LET key == ParseString(text, SkipWhitespace(text, p))
    IN  IF ~key.ok THEN ParseError
        ELSE LET colon == SkipWhitespace(text, key.at)
             IN  IF colon > Len(text) \/ text[colon] # ":" THEN ParseError
                 ELSE LET v == ParseValue(text, SkipWhitespace(text, colon + 1))
                      IN  IF ~v.ok THEN ParseError
                          ELSE LET next == SkipWhitespace(text, v.at)
                                   members == MapSet(acc, key.str, v)
                               IN  IF next > Len(text) THEN ParseError
                                   ELSE IF text[next] = "}"
                                   THEN Parsed(next + 1, "object", <<>>, FALSE, members)
                                   ELSE IF text[next] = ","
                                   THEN ParseMembers(text, next + 1, members)
                                   ELSE ParseError

\* a JSON object at p
ParseObject(text, p) ==
    LET first == SkipWhitespace(text, p + 1)
    IN  IF first <= Len(text) /\ text[first] = "}"
        THEN Parsed(first + 1, "object", <<>>, FALSE, <<>>)
        ELSE ParseMembers(text, p + 1, <<>>)

\* a JSON value at p: an object, a string, true, false or null
ParseValue(text, p) ==
    IF p > Len(text) THEN ParseError
    ELSE IF text[p] = "{" THEN ParseObject(text, p)
    ELSE IF text[p] = "\"" THEN ParseString(text, p)
    ELSE IF OccursAt(text, JSON_TRUE, p) THEN Parsed(p + 4, "boolean", <<>>, TRUE, <<>>)
    ELSE IF OccursAt(text, JSON_FALSE, p) THEN Parsed(p + 5, "boolean", <<>>, FALSE, <<>>)
    ELSE IF OccursAt(text, JSON_NULL, p) THEN Parsed(p + 4, "null", <<>>, FALSE, <<>>)
    ELSE ParseError

\* whether a parsed value is a cache entry: an object with a string
\* message and a boolean needsCherryPick
IsEntry(v) ==
    /\ v.type = "object"
    /\ DOMAIN v.members = {KEY_MESSAGE, KEY_NEEDS}
    /\ v.members[KEY_MESSAGE].type = "string"
    /\ v.members[KEY_NEEDS].type = "boolean"

\* JSON.parse(fs.readFileSync(path, 'utf-8')): the value parsed, as the
\* cache file holds it. Objects with members other than cache entries are
\* outside the values the model gives a cache file.
JSONParse(text) ==
    LET r == ParseValue(text, SkipWhitespace(text, 1))
    IN  IF ~r.ok \/ SkipWhitespace(text, r.at) # Len(text) + 1
        THEN [kind |-> "malformed", obj |-> <<>>, arr |-> <<>>]
        ELSE IF r.type = "object" /\ \A key \in DOMAIN r.members : IsEntry(r.members[key])
        THEN [kind |-> "object",
              obj |-> [key \in DOMAIN r.members |->
                        [message |-> r.members[key].members[KEY_MESSAGE].str,
                         needsCherryPick |-> r.members[key].members[KEY_NEEDS].bool]],
              arr |-> <<>>]
        ELSE IF r.type \in {"null", "boolean"} THEN [kind |-> r.type, obj |-> <<>>, arr |-> <<>>]
        ELSE [kind |-> "unmodelled", obj |-> <<>>, arr |-> <<>>]

-----------------------------------------------------------------------------
(* The process.                                                            *)

TriageCommands == {"triage-main", "triage-next"}
Commands == TriageCommands \cup {"get-release-commits"}

\* what `git branch --show-current` and `git branch --list release/*` print
CurrentBranches == {TRIAGE_BRANCH \o <<"\n">>, MAIN \o <<"\n">>}
BranchLists ==
    { <<>>,
      <<" ", " ">> \o RELEASE_BRANCH \o <<"\n">>,
      <<" ", " ">> \o RELEASE_BRANCH \o <<"\n", " ", " ">> \o OTHER_RELEASE_BRANCH \o <<"\n">> }

\* getReleaseBranch that returns the first branch of the list
getReleaseBranch_First(list) ==
    LET names == Split(Trim(list)) IN IF names = <<>> THEN <<>> ELSE names[1]

\* getReleaseBranch: (await $`git branch --list release/*`).stdout.trim()
getReleaseBranch(list) == Trim(list)

\* getSymmetricDifference: (await $`git log ...`).stdout.trim().split('\n')
getSymmetricDifference(text) == Split(Trim(text))

\* getCommitMessage: (await $`git log --format=%s -n 1 ${hash}`).stdout.trim()
getCommitMessage(hash) == Trim(SubjectOf(hash) \o <<"\n">>)

\* the destination of a triage command
Destination(cmd, list) == IF cmd = "triage-main" THEN NEXT ELSE getReleaseBranch(list)

\* the answers the user may type at the prompt of triageCommits
Answers == {"", "Y", "y", "n", "o", "open", "maybe"}

\* the process ends with status code; the 'exit' handlers run, which write
\* the map d when setupData registered its handler
Exit(code, d) ==
    /\ pc' = "exited"
    /\ exitCode' = code
    /\ file' = IF hook THEN ExitHook(d) ELSE file

\* the state of the process before it runs
Idle ==
    /\ pc = "cli"
    /\ exitCode = -1
    /\ hook = FALSE
    /\ currentBranch = <<>>
    /\ branchList = <<>>
    /\ gitLog = <<>>
    /\ grepMemo = {}
    /\ data = <<>>
    /\ from = <<>>
    /\ to = <<>>
    /\ stdout = <<>>
    /\ commits = <<>>
    /\ j = 0
    /\ releaseCommits = <<>>
    /\ k = 0
    /\ answer = "none"
    /\ calls = <<>>
    /\ console = {}
    /\ loaded = <<>>
    /\ missingCommits = <<>>
    /\ run = 1
    /\ runs = <<>>
    /\ matched = <<>>
    /\ nodes = <<>>
    /\ typeExports = <<>>

\* a triage session: every kind of cache file
Init ==
    /\ Idle
    /\ command \in Commands
    /\ file \in IF command \in TriageCommands THEN Files ELSE {NoFile}

\* classification: no cache file
InitClassify ==
    /\ Idle
    /\ command \in Commands
    /\ file = NoFile

\* what `git log` may print in a triage session: few kinds of lines
CoreTexts == {LogText(l) : l \in Listings(CoreLines, MaxLines)}

\* what `git log` may print: every kind of line
AllTexts == {LogText(l) : l \in Listings(CommitLines \cup GraphLines, MaxLines)}

\* branchStrategyCLI.mjs: the validation before yargs runs the command
branchStrategyCLI ==
    /\ pc = "cli"
    /\ \E cb \in CurrentBranches, bl \in BranchLists :
        /\ currentBranch' = cb
        /\ branchList' = bl
        /\ IF Trim(cb) # TRIAGE_BRANCH
           THEN /\ console' = console \cup {"Start from branch-strategy-triage"}
                /\ Exit(1, data)
           ELSE IF Len(Split(getReleaseBranch(bl))) > 1
           THEN /\ console' = console \cup {"There's more than one release branch"}
                /\ Exit(1, data)
           ELSE IF Len(getReleaseBranch(bl)) = 0
           THEN /\ console' = console \cup {"There's no release branch"}
                /\ Exit(1, data)
           ELSE /\ pc' = "handler"
                /\ UNCHANGED <<console, exitCode, file>>
    /\ UNCHANGED <<others, loaded, missingCommits,
                   command, gitLog, grepMemo, hook, data, from, to, stdout,
                   commits, j, releaseCommits, k, answer, calls>>

\* setupData, first statement of the triage handlers
setupData ==
    /\ pc = "handler"
    /\ command \in TriageCommands
    /\ data' = LoadData(file)
    /\ hook' = TRUE
    /\ pc' = "fetch"
    /\ UNCHANGED <<others, loaded, missingCommits,
                   command, currentBranch, branchList, gitLog, grepMemo, file,
                   exitCode, from, to, stdout, commits, j, releaseCommits, k,
                   answer, calls, console>>

\* an awaited external command exits non-zero: zx throws, nothing catches it
CommandFails ==
    /\ Exit(1, data)
    /\ UNCHANGED <<others, loaded, missingCommits,
                   command, currentBranch, branchList, gitLog, grepMemo, hook,
                   data, from, to, stdout, commits, j, releaseCommits, k,
                   answer, calls, console>>

\* updateRemotes, getReleaseBranch or getSymmetricDifference fails
FetchFails == pc = "fetch" /\ CommandFails

\* the triage handlers up to the call of mungeCommits; git prints one of texts
TriageFetch(texts) ==
    /\ pc = "fetch"
    /\ \E text \in texts :
       LET lines == getSymmetricDifference(text)
       IN  /\ gitLog' = text
           /\ stdout' = lines
           /\ IF command = "triage-next" /\ Len(lines) = 1 /\ lines[1] = <<>>
              THEN /\ console' = console \cup {"The branches are the same"}
                   /\ data' = <<>>
                   /\ Exit(0, <<>>)
                   /\ UNCHANGED <<from, to>>
              ELSE /\ from' = IF command = "triage-main" THEN MAIN ELSE NEXT
                   /\ to' = <<Destination(command, branchList)>>
                   /\ pc' = "munge"
                   /\ UNCHANGED <<console, data, exitCode, file>>
    /\ UNCHANGED <<others, loaded, missingCommits,
                   command, currentBranch, branchList, grepMemo, hook,
                   commits, j, releaseCommits, k, answer, calls>>

\* getReleaseCommits up to the call of mungeCommits (no cache of its own
\* yet); git prints one of texts
getReleaseCommitsFetch(texts) ==
    /\ pc = "handler"
    /\ command = "get-release-commits"
    /\ \E tags \in {<<TAG_LATEST>>, <<TAG_PATCH, TAG_LATEST>>} :
        /\ from' = getReleaseBranch(branchList)
        /\ to' = tags
    /\ \E text \in texts :
        /\ gitLog' = text
        /\ stdout' = getSymmetricDifference(text)
    /\ pc' = "munge"
    /\ UNCHANGED <<others, loaded, missingCommits,
                   command, currentBranch, branchList, grepMemo, file,
                   exitCode, hook, data, commits, j, releaseCommits, k, answer,
                   calls, console>>

-----------------------------------------------------------------------------
(* mungeCommits.                                                           *)

\* NewCommit that keeps the line trimmed
NewCommit_Trim(line) ==
    [line |-> Trim(line), ref |-> from, type |-> "commit", pretty |-> "plain",
     hash |-> Undefined, message |-> Undefined, pr |-> Undefined]

\* the commit object as pushed, before any check
NewCommit(line) ==
    [line |-> line, ref |-> from, type |-> "commit", pretty |-> "plain",
     hash |-> Undefined, message |-> Undefined, pr |-> Undefined]

\* a call of an external command by mungeCommits, for the commit at index at
Call(cmd, at, ref, arg, ok) == [cmd |-> cmd, at |-> at, ref |-> ref, arg |-> arg, ok |-> ok]

\* the checks that follow the message lookup: chore, then annotated tag
Classify(commit) ==
    IF isCommitChore(commit.line)
    THEN [commit EXCEPT !.type = "chore", !.pretty = "dim"]
    ELSE IF ANNOTATED_TAG_MESSAGE(commit.message)
    THEN [commit EXCEPT !.ref = commit.message, !.type = "tag", !.pretty = "dim"]
    ELSE commit

\* Scans with the `continue` after the chore check missing
Scans_NoContinue(commit) == commit.type \in {"commit", "chore"}

\* whether the pass goes on to the destination refs: the `continue` after
\* the chore and the tag checks skips them
Scans(commit) == commit.type = "commit"

\* one pass of the for loop over stdout, up to its first await that yields
\* to a destination ref: push, the UI check, the hash, the message, the
\* chore and tag checks
mungeLine ==
    /\ pc = "munge"
    /\ j = 0
    /\ Len(commits) < Len(stdout)
    /\ LET at == Len(commits) + 1
           line == stdout[at]
           commit == NewCommit(line)
       IN  IF isLineUI(line)
           THEN /\ commits' = Append(commits, [commit EXCEPT !.type = "ui", !.pretty = "dim"])
                /\ UNCHANGED <<pc, exitCode, file, j, calls, console>>
           ELSE IF HASH(line) = 0
           THEN \* line.match(HASH) is null: reading .groups throws a TypeError
                /\ commits' = Append(commits, commit)
                /\ console' = console \cup {"TypeError"}
                /\ Exit(1, data)
                /\ UNCHANGED <<j, calls>>
           ELSE LET hashed == [commit EXCEPT !.hash = HashGroup(line)]
                    message == getCommitMessage(hashed.hash)
                    done == Classify([hashed EXCEPT !.message = message,
                                                     !.pr = PR(message)])
                IN  \/ /\ commits' = Append(commits, hashed)
                       /\ calls' = Append(calls, Call("getCommitMessage", at, <<>>, hashed.hash, FALSE))
                       /\ Exit(1, data)
                       /\ UNCHANGED <<j, console>>
                    \/ /\ commits' = Append(commits, done)
                       /\ calls' = Append(calls, Call("getCommitMessage", at, <<>>, hashed.hash, TRUE))
                       /\ j' = IF Scans(done) THEN 1 ELSE 0
                       /\ UNCHANGED <<pc, exitCode, file, console>>
    /\ UNCHANGED <<others, loaded, missingCommits,
                   command, currentBranch, branchList, gitLog, grepMemo, hook,
                   data, from, to, stdout, releaseCommits, k, answer>>

\* what `git log ${ref} --oneline --grep ${message}` may print
GrepOutputs == {<<>>, <<"<", "\n">>}

\* isCommitInRef, given the output of its command
isCommitInRef(output) == Len(Trim(output)) > 0

\* the color of a commit found in a destination ref
prettyFn(cmd) == IF cmd = "get-release-commits" THEN "dim.hex" ELSE "dim.blue"

\* NextDestination with a break at the first match
NextDestination_Break(n, found) == IF found \/ n >= Len(to) THEN 0 ELSE n + 1

\* the index of the destination ref the loop over this.to visits after the
\* n-th, 0 after the last: a match does not break out of the loop
NextDestination(n, found) == IF n < Len(to) THEN n + 1 ELSE 0

\* one pass of the loop over this.to, for the commit pushed last
mungeRef ==
    /\ pc = "munge"
    /\ j >= 1
    /\ LET at == Len(commits)
           commit == commits[at]
           ref == to[j]
           pattern == sanitizeMessage(commit.message)
       IN  \/ /\ calls' = Append(calls, Call("isCommitInRef", at, ref, pattern, FALSE))
              /\ Exit(1, data)
              /\ UNCHANGED <<grepMemo, commits, j>>
           \/ \E output \in GrepOutputs :
              /\ \A m \in grepMemo :
                    (m.ref = ref /\ m.pattern = pattern) => m.found = isCommitInRef(output)
              /\ grepMemo' = grepMemo \cup
                    {[ref |-> ref, pattern |-> pattern, found |-> isCommitInRef(output)]}
              /\ calls' = Append(calls, Call("isCommitInRef", at, ref, pattern, TRUE))
              /\ commits' = IF isCommitInRef(output)
                            THEN [commits EXCEPT ![at].ref = ref, ![at].pretty = prettyFn(command)]
                            ELSE commits
              /\ j' = NextDestination(j, isCommitInRef(output))
              /\ UNCHANGED <<pc, exitCode, file>>
    /\ UNCHANGED <<others, loaded, missingCommits,
                   command, currentBranch, branchList, gitLog, hook, data, from,
                   to, stdout, releaseCommits, k, answer, console>>

\* mungeCommits has returned to its caller
Munged == pc = "munge" /\ j = 0 /\ Len(commits) = Len(stdout)

-----------------------------------------------------------------------------
(* The handlers after mungeCommits.                                        *)

NotCommit == {"ui", "chore", "tag"}

\* IsCommit with chore missing from the list of types
IsCommit_Chore(c) == c.type \notin {"ui", "tag"}

IsCommit(c) == c.type \notin NotCommit

\* Listed that takes a commit decided against for an undecided one
Listed_Undecided(c, d, branch) ==
    IF c.type \in NotCommit \/ c.ref = branch THEN c
    ELSE IF c.hash \notin DOMAIN d \/ ~d[c.hash].needsCherryPick THEN [c EXCEPT !.pretty = "yellow"]
    ELSE [c EXCEPT !.pretty = "green"]

\* Listed without the filter on the ref
Listed_Landed(c, d, branch) ==
    IF c.type \in NotCommit THEN c
    ELSE IF c.hash \notin DOMAIN d THEN [c EXCEPT !.pretty = "yellow"]
    ELSE IF d[c.hash].needsCherryPick THEN [c EXCEPT !.pretty = "green"]
    ELSE [c EXCEPT !.pretty = "dim.red"]

\* the color of a commit in the listing of a triage with nothing new
Listed(c, d, branch) ==
    IF c.type \in NotCommit \/ c.ref = branch THEN c
    ELSE IF c.hash \notin DOMAIN d THEN [c EXCEPT !.pretty = "yellow"]
    ELSE IF d[c.hash].needsCherryPick THEN [c EXCEPT !.pretty = "green"]
    ELSE [c EXCEPT !.pretty = "dim.red"]

\* the triage handlers from the return of mungeCommits to the first prompt,
\* or to their return when nothing is left to triage
triageReport ==
    /\ Munged
    /\ command \in TriageCommands
    /\ LET branch == Destination(command, branchList)
           candidates == SelectSeq(commits, IsCommit)
           purged == purgeData(data, candidates, branch)
           Left(c) == c.hash \notin DOMAIN purged /\ c.ref # branch
           left == SelectSeq(candidates, Left)
       IN  /\ data' = purged
           /\ releaseCommits' = left
           /\ IF left = <<>>
              THEN /\ console' = console \cup {"No new commits to triage"}
                   /\ commits' = [n \in 1..Len(commits) |-> Listed(commits[n], purged, branch)]
                   /\ Exit(0, purged)
                   /\ k' = k
              ELSE \/ \* openCherryPickPRs fails
                      /\ command = "triage-main"
                      /\ Exit(1, purged)
                      /\ UNCHANGED <<commits, k, console>>
                   \/ /\ pc' = "triage"
                      /\ k' = 1
                      /\ UNCHANGED <<commits, console, exitCode, file>>
    /\ UNCHANGED <<others, loaded, missingCommits,
                   command, currentBranch, branchList, gitLog, grepMemo, hook,
                   from, to, stdout, j, answer, calls>>

\* triageCommits with a check for 'open' only: 'o' is taken for a decision
triageCommits_OpenOnly ==
    /\ pc = "triage"
    /\ \E typed \in Answers :
        LET commit == releaseCommits[k]
        IN  /\ answer' = typed
            /\ IF typed = "open"
               THEN IF commit.pr # Undefined
                    THEN \/ UNCHANGED <<pc, exitCode, file, data, k, console>>
                         \/ /\ Exit(1, data)
                            /\ UNCHANGED <<data, k, console>>
                    ELSE /\ console' = console \cup {"There's no PR for this commit"}
                         /\ UNCHANGED <<pc, exitCode, file, data, k>>
               ELSE /\ data' = MapSet(data, commit.hash,
                                      [message |-> commit.message,
                                       needsCherryPick |-> isYes(typed)])
                    /\ k' = k + 1
                    /\ IF k = Len(releaseCommits)
                       THEN Exit(0, data')
                       ELSE UNCHANGED <<pc, exitCode, file>>
                    /\ UNCHANGED console
    /\ UNCHANGED <<others, loaded, missingCommits,
                   command, currentBranch, branchList, gitLog, grepMemo, hook,
                   from, to, stdout, commits, j, releaseCommits, calls>>

\* one pass of the while loop of triageCommits: a question and its answer
triageCommits ==
    /\ pc = "triage"
    /\ \E typed \in Answers :
        LET commit == releaseCommits[k]
        IN  /\ answer' = typed
            /\ IF typed \in {"open", "o"}
               THEN IF commit.pr # Undefined
                    THEN \/ UNCHANGED <<pc, exitCode, file, data, k, console>>
                         \/ \* `open` fails
                            /\ Exit(1, data)
                            /\ UNCHANGED <<data, k, console>>
                    ELSE /\ console' = console \cup {"There's no PR for this commit"}
                         /\ UNCHANGED <<pc, exitCode, file, data, k>>
               ELSE /\ data' = MapSet(data, commit.hash,
                                      [message |-> commit.message,
                                       needsCherryPick |-> isYes(typed)])
                    /\ k' = k + 1
                    /\ IF k = Len(releaseCommits)
                       THEN Exit(0, data')
                       ELSE UNCHANGED <<pc, exitCode, file>>
                    /\ UNCHANGED console
    /\ UNCHANGED <<others, loaded, missingCommits,
                   command, currentBranch, branchList, gitLog, grepMemo, hook,
                   from, to, stdout, commits, j, releaseCommits, calls>>

\* Ctrl-C at the prompt: readline closes, the question never resolves, the
\* event loop drains and the process exits
Interrupt ==
    /\ pc = "triage"
    /\ Exit(0, data)
    /\ UNCHANGED <<others, loaded, missingCommits,
                   command, currentBranch, branchList, gitLog, grepMemo, hook,
                   data, from, to, stdout, commits, j, releaseCommits, k,
                   answer, calls, console>>

\* getReleaseCommits after mungeCommits
getReleaseCommitsCollect ==
    /\ Munged
    /\ command = "get-release-commits"
    /\ LET Release(c) == c.ref = from /\ c.type = "commit"
       IN  releaseCommits' = SelectSeq(commits, Release)
    /\ Exit(0, data)
    /\ UNCHANGED <<others, loaded, missingCommits,
                   command, currentBranch, branchList, gitLog, grepMemo, hook,
                   data, from, to, stdout, commits, j, k, answer, calls, console>>

\* the steps that do not read the listing
Steps ==
    \/ branchStrategyCLI
    \/ setupData
    \/ FetchFails
    \/ mungeLine
    \/ mungeRef
    \/ triageReport
    \/ triageCommits
    \/ Interrupt
    \/ getReleaseCommitsCollect

Next ==
    \/ Steps
    \/ TriageFetch(CoreTexts)
    \/ getReleaseCommitsFetch(CoreTexts)

NextClassify ==
    \/ Steps
    \/ TriageFetch(AllTexts)
    \/ getReleaseCommitsFetch(AllTexts)

Spec == Init /\ [][Next]_vars

SpecClassify == InitClassify /\ [][NextClassify]_vars

-----------------------------------------------------------------------------
(* A run that exits with a cache, and setupData of the run after it.       *)

\* a message with characters that JSON escapes
MSG_REVERT == <<"R", "e", "v", "e", "r", "t", " ", "\"", "a", "\\", "b", "\"">>

\* the caches a run may hold at its exit: hashes, and the key "0" that
\* setupData gives the first element of an array
RoundTripKeys == {Hash("a"), Hash("b"), IndexKey(1)}

RoundTripEntries == [message : {MSG_FIX, MSG_SKIP, MSG_REVERT}, needsCherryPick : BOOLEAN]

RoundTripCaches ==
    UNION {[ks -> RoundTripEntries] :
            ks \in {x \in SUBSET RoundTripKeys : Cardinality(x) <= MaxEntries}}

\* a triage run about to exit, with its cache
InitRoundTrip ==
    /\ command \in TriageCommands
    /\ pc = "exiting"
    /\ exitCode = -1
    /\ hook = TRUE
    /\ data \in RoundTripCaches
    /\ file = NoFile
    /\ currentBranch = <<>>
    /\ branchList = <<>>
    /\ gitLog = <<>>
    /\ grepMemo = {}
    /\ from = <<>>
    /\ to = <<>>
    /\ stdout = <<>>
    /\ commits = <<>>
    /\ j = 0
    /\ releaseCommits = <<>>
    /\ k = 0
    /\ answer = "none"
    /\ calls = <<>>
    /\ console = {}
    /\ loaded = <<>>
    /\ missingCommits = <<>>
    /\ run = 1
    /\ runs = <<>>
    /\ matched = <<>>
    /\ nodes = <<>>
    /\ typeExports = <<>>

\* the 'exit' handler of setupData: the text JSON.stringify gives is
\* written, and the file then holds what JSON.parse reads from that text
writeFileSync ==
    /\ pc = "exiting"
    /\ hook
    /\ file' = JSONParse(JSONStringify(data))
    /\ pc' = "exited"
    /\ exitCode' = 0
    /\ UNCHANGED <<others, loaded, missingCommits,
                   command, currentBranch, branchList, gitLog, grepMemo, hook,
                   data, from, to, stdout, commits, j, releaseCommits, k,
                   answer, calls, console>>

\* the try block of setupData in the run that follows
readFileSync ==
    /\ pc = "exited"
    /\ loaded' = LoadData(file)
    /\ pc' = "loaded"
    /\ UNCHANGED <<others, missingCommits,
                   command, currentBranch, branchList, gitLog, grepMemo, file,
                   exitCode, hook, data, from, to, stdout, commits, j,
                   releaseCommits, k, answer, calls, console>>

NextRoundTrip ==
    \/ writeFileSync
    \/ readFileSync

SpecRoundTrip == InitRoundTrip /\ [][NextRoundTrip]_vars

-----------------------------------------------------------------------------
(* playground.mjs: compareMinorToPatch up to its list of missing commits.  *)

COMPARE == "compare-minor-to-patch"

\* an abbreviated hash
Abbrev(c) == [n \in 1..AbbrevWidth |-> c]

DECORATION == <<"(", "t", "a", "g", ":", " ", "v", "3", ".", "1", ".", "2", ")", " ", "v", "3", ".", "1", ".", "2">>

\* lines of `git log --oneline --decorate --left-right --graph
\* --cherry-mark minor..patch`
CompareLines ==
    { <<">", " ">> \o Abbrev("a") \o <<" ">> \o MSG_FIX,
      <<">", " ">> \o Abbrev("b") \o <<" ">> \o MSG_SKIP,
      <<"=", " ">> \o Abbrev("c") \o <<" ">> \o MSG_REVERT,
      <<">", " ">> \o Abbrev("d") \o <<" ">> \o DECORATION,
      <<">", " ">> \o Abbrev("e") \o <<" ">> \o CHORE_YARN,
      <<"|", " ", ">", " ">> \o Abbrev("f") \o <<" ">> \o MSG_FIX,
      <<"|", "\\">>,
      <<"|", "/">> }

CompareTexts == {LogText(l) : l \in Listings(CompareLines, MaxLines)}

\* /\(tag: v\d\.\d\.\d\)/.test(line)
TagDecoration(line) ==
    \E n \in 1..Len(line) :
        /\ OccursAt(line, <<"(", "t", "a", "g", ":", " ", "v">>, n)
        /\ n + 12 <= Len(line)
        /\ line[n + 7] \in Digit
        /\ line[n + 8] = "."
        /\ line[n + 9] \in Digit
        /\ line[n + 10] = "."
        /\ line[n + 11] \in Digit
        /\ line[n + 12] = ")"

\* the filter of compareMinorToPatch and its line.substring(2)
Missing(lines) ==
    LET Kept(line) == ~(TagDecoration(line) \/ Includes(line, CHORE_YARN))
        kept == SelectSeq(lines, Kept)
    IN  [n \in 1..Len(kept) |-> SubSeq(kept[n], 3, Len(kept[n]))]

InitCompare ==
    /\ Idle
    /\ command = COMPARE
    /\ file = NoFile

\* compareMinorToPatch up to its first return or to the start of
\* .map(parseCommit)
compareMinorToPatch ==
    /\ pc = "cli"
    /\ command = COMPARE
    /\ \E text \in CompareTexts :
        /\ gitLog' = text
        /\ IF Trim(text) = <<>>
           THEN /\ console' = console \cup {"ok"}
                /\ stdout' = stdout
                /\ Exit(0, data)
           ELSE /\ stdout' = Split(Trim(text))
                /\ pc' = "parse"
                /\ UNCHANGED <<console, exitCode, file>>
    /\ UNCHANGED <<others, loaded, missingCommits,
                   command, currentBranch, branchList, grepMemo, hook, data,
                   from, to, commits, j, releaseCommits, k, answer, calls>>

\* one call of parseCommit by .map(parseCommit)
mapParseCommit ==
    /\ pc = "parse"
    /\ LET lines == Missing(stdout)
           at == Len(missingCommits) + 1
       IN  IF at > Len(lines)
           THEN /\ pc' = "compared"
                /\ UNCHANGED <<missingCommits, console, exitCode, file>>
           ELSE LET commit == parseCommit(lines[at])
                IN  IF commit.threw
                    THEN /\ console' = console \cup {"TypeError"}
                         /\ Exit(1, data)
                         /\ UNCHANGED missingCommits
                    ELSE /\ missingCommits' = Append(missingCommits,
                                [hash |-> commit.hash, message |-> commit.message,
                                 pr |-> commit.pr])
                         /\ UNCHANGED <<pc, console, exitCode, file>>
    /\ UNCHANGED <<others, loaded,
                   command, currentBranch, branchList, gitLog, grepMemo, hook,
                   data, from, to, stdout, commits, j, releaseCommits, k,
                   answer, calls>>

NextCompare ==
    \/ compareMinorToPatch
    \/ mapParseCommit

SpecCompare == InitCompare /\ [][NextCompare]_vars

-----------------------------------------------------------------------------
(* Two invocations of a triage command on one cache file.                  *)

Invocations == {1, 2}

\* the commits the two invocations are asked about
SharedHashes == {Hash("a"), Hash("b")}

\* the cache file before either invocation starts
SharedFiles ==
    { NoFile,
      [kind |-> "object",
       obj |-> [h \in {Hash("9")} |-> [message |-> MSG_FIX, needsCherryPick |-> FALSE]],
       arr |-> <<>>] }

InitConcurrent ==
    /\ command \in TriageCommands
    /\ file \in SharedFiles
    /\ runs = [p \in Invocations |-> [pc |-> "start", data |-> <<>>, rank |-> 0]]
    /\ pc = "concurrent"
    /\ exitCode = -1
    /\ hook = FALSE
    /\ data = <<>>
    /\ currentBranch = <<>>
    /\ branchList = <<>>
    /\ gitLog = <<>>
    /\ grepMemo = {}
    /\ from = <<>>
    /\ to = <<>>
    /\ stdout = <<>>
    /\ commits = <<>>
    /\ j = 0
    /\ releaseCommits = <<>>
    /\ k = 0
    /\ answer = "none"
    /\ calls = <<>>
    /\ console = {}
    /\ loaded = <<>>
    /\ missingCommits = <<>>
    /\ run = 1
    /\ matched = <<>>
    /\ nodes = <<>>
    /\ typeExports = <<>>

\* what an action of one invocation leaves alone
OneInvocation ==
    UNCHANGED <<command, currentBranch, branchList, gitLog, grepMemo, pc,
                exitCode, hook, data, from, to, stdout, commits, j,
                releaseCommits, k, answer, calls, console, loaded,
                missingCommits, run, matched, nodes, typeExports>>

\* setupData in invocation p: the file is read as it is at that moment
startInvocation(p) ==
    /\ runs[p].pc = "start"
    /\ runs' = [runs EXCEPT ![p].pc = "triage", ![p].data = LoadData(file)]
    /\ UNCHANGED file
    /\ OneInvocation

\* this.data.set of triageCommits in invocation p
decideInvocation(p) ==
    /\ runs[p].pc = "triage"
    /\ \E hash \in SharedHashes \ DOMAIN runs[p].data, yes \in BOOLEAN :
        runs' = [runs EXCEPT ![p].data =
                    MapSet(runs[p].data, hash, [message |-> MSG_FIX, needsCherryPick |-> yes])]
    /\ UNCHANGED file
    /\ OneInvocation

\* exitInvocation with an 'exit' handler that adds its entries to the file
exitInvocation_Merge(p) ==
    /\ runs[p].pc = "triage"
    /\ file' = ExitHook([h \in DOMAIN LoadData(file) \cup DOMAIN runs[p].data |->
                            IF h \in DOMAIN runs[p].data THEN runs[p].data[h]
                            ELSE LoadData(file)[h]])
    /\ runs' = [runs EXCEPT ![p].pc = "exited",
                            ![p].rank = 1 + Cardinality({q \in Invocations : runs[q].pc = "exited"})]
    /\ OneInvocation

\* invocation p ends, at the end of its triage or before: its 'exit'
\* handler writes its Map over the file; rank is its place among the exits
exitInvocation(p) ==
    /\ runs[p].pc = "triage"
    /\ file' = ExitHook(runs[p].data)
    /\ runs' = [runs EXCEPT ![p].pc = "exited",
                            ![p].rank = 1 + Cardinality({q \in Invocations : runs[q].pc = "exited"})]
    /\ OneInvocation

NextConcurrent ==
    \E p \in Invocations :
        \/ startInvocation(p)
        \/ decideInvocation(p)
        \/ exitInvocation(p)

SpecConcurrent == InitConcurrent /\ [][NextConcurrent]_vars

-----------------------------------------------------------------------------
(* The same triage command run again on the repository it has triaged.     *)

\* a triage session
InitRerun ==
    /\ Idle
    /\ command \in TriageCommands
    /\ file \in Files

\* the command is started again after a run in which triageCommits asked
\* about every commit it was given; the new process has nothing of the old
\* one but the cache file, and git answers as it did: the same branches
\* (so that branchStrategyCLI passes again), the same log, the same greps
Rerun ==
    /\ run = 1
    /\ pc = "exited"
    /\ exitCode = 0
    /\ releaseCommits # <<>>
    /\ k = Len(releaseCommits) + 1
    /\ run' = 2
    /\ pc' = "handler"
    /\ exitCode' = -1
    /\ hook' = FALSE
    /\ data' = <<>>
    /\ from' = <<>>
    /\ to' = <<>>
    /\ stdout' = <<>>
    /\ commits' = <<>>
    /\ j' = 0
    /\ releaseCommits' = <<>>
    /\ k' = 0
    /\ answer' = "none"
    /\ calls' = <<>>
    /\ console' = {}
    /\ UNCHANGED <<command, currentBranch, branchList, gitLog, grepMemo, file,
                   loaded, missingCommits, runs, matched, nodes, typeExports>>

NextRerun ==
    \/ branchStrategyCLI
    \/ setupData
    \/ FetchFails
    \/ TriageFetch(IF run = 1 THEN CoreTexts ELSE {gitLog})
    \/ mungeLine
    \/ mungeRef
    \/ triageReport
    \/ triageCommits
    \/ Interrupt
    \/ Rerun

SpecRerun == InitRerun /\ [][NextRerun]_vars

-----------------------------------------------------------------------------
(* babel-plugin-redwood-import-dir.ts: the visitor of ImportDeclaration.   *)

BABEL == "babel"

MaxFiles == 3

\* import services from 'src/**/*.{js,ts}'
IMPORT_NAME == <<"s", "e", "r", "v", "i", "c", "e", "s">>
IMPORT_GLOB == <<"s", "r", "c", "/", "*", "*", "/", "*", ".", "{", "j", "s", ",", "t", "s", "}">>

\* an import that is no glob
IMPORT_PLAIN == <<"s", "r", "c", "/", "l", "i", "b">>

\* the files the glob may match under cwd
GlobFiles ==
    { <<"s", "r", "c", "/", "a", ".", "j", "s">>,
      <<"s", "r", "c", "/", "b", ".", "t", "s">>,
      <<"s", "r", "c", "/", "c", ".", "s", "d", "l", ".", "j", "s">>,
      <<"s", "r", "c", "/", "n", "e", "s", "t", "e", "d", "/", "d", ".", "j", "s">>,
      <<"s", "r", "c", "/", "a", ".", "t", "e", "s", "t", ".", "j", "s">>,
      <<"s", "r", "c", "/", "p", "o", "s", "t", "s", ".", "j", "s">> }

\* what glob.sync may return: some of the files, each once
GlobResults ==
    {l \in Listings(GlobFiles, MaxFiles) : \A x, y \in 1..Len(l) : l[x] = l[y] => x = y}

\* importGlob.split('*')[0]
staticGlob(importGlob) ==
    LET n == IndexOf(importGlob, <<"*">>)
    IN  IF n = 0 THEN importGlob ELSE SubSeq(importGlob, 1, n - 1)

\* String.prototype.replace(/.(js|ts)/, ''): the first place where any
\* character but a line terminator is followed by js or ts
ReplaceExtension(str) ==
    LET at == {n \in 1..(Len(str) - 2) :
                /\ str[n] \notin LineTerminator
                /\ SubSeq(str, n + 1, n + 2) \in {<<"j", "s">>, <<"t", "s">>}}
    IN  IF at = {} THEN str
        ELSE LET n == CHOOSE x \in at : \A y \in at : x <= y
             IN  SubSeq(str, 1, n - 1) \o SubSeq(str, n + 3, Len(str))

\* String.prototype.replace(/[^a-zA-Z0-9]/g, '_')
ReplaceNonAlphanumeric(str) ==
    [n \in 1..Len(str) |-> IF str[n] \in Digit \cup Lower \cup Upper THEN str[n] ELSE "_"]

filePathToVarName(filePath, importGlob) ==
    ReplaceNonAlphanumeric(
        ReplaceExtension(ReplaceFirst(filePath, staticGlob(importGlob), <<>>)))

\* path.parse(filePath): dir + '/' + name, for a path with a directory
filePathWithoutExtension(filePath) ==
    LET slash == CHOOSE n \in 1..Len(filePath) :
                    filePath[n] = "/" /\ \A m \in (n + 1)..Len(filePath) : filePath[m] # "/"
        dots == {n \in (slash + 2)..Len(filePath) : filePath[n] = "."}
    IN  IF dots = {} THEN filePath
        ELSE SubSeq(filePath, 1, (CHOOSE n \in dots : \A m \in dots : m <= n) - 1)

\* the nodes the loop over dirFiles pushes for one file
FileNodes(filePath, importGlob) ==
    LET fpVarName == filePathToVarName(filePath, importGlob)
    IN  << [node |-> "importNamespace",
            name |-> IMPORT_NAME \o <<"_">> \o fpVarName,
            source |-> filePathWithoutExtension(filePath)],
           [node |-> "assignment",
            name |-> fpVarName,
            source |-> IMPORT_NAME \o <<"_">> \o fpVarName] >>

RECURSIVE AllFileNodes(_, _)
AllFileNodes(dirFiles, importGlob) ==
    IF dirFiles = <<>> THEN <<>>
    ELSE FileNodes(Head(dirFiles), importGlob) \o AllFileNodes(Tail(dirFiles), importGlob)

\* the text of the declaration file
generateTypes(modulePath, exports) ==
    <<"d", "e", "c", "l", "a", "r", "e", " ", "m", "o", "d", "u", "l", "e", " ", "'">> \o modulePath \o <<"'", " ", "{", "\n", " ", " ", " ", " ", "e", "x", "p", "o", "r", "t", " ", "d", "e", "f", "a", "u", "l", "t", " ", "{", "\n", " ", " ", " ", " ", " ", " ">>
        \o Join(exports)
        \o <<"\n", " ", " ", " ", " ", "}", "\n", " ", " ", "}">>

\* `${fpVarName}: any`
TypeExport(fpVarName) == fpVarName \o <<":", " ", "a", "n", "y">>

\* the filter on the result of glob.sync
NotTest(n) == ~Includes(n, <<".", "t", "e", "s", "t", ".">>)

InitImportDir ==
    /\ Idle
    /\ command = BABEL
    /\ file = NoFile

\* the visitor, for one import declaration
ImportDeclaration ==
    /\ pc = "cli"
    /\ command = BABEL
    /\ \E source \in {IMPORT_GLOB, IMPORT_PLAIN} :
        IF ~Includes(source, <<"*">>)
        THEN /\ pc' = "kept"
             /\ UNCHANGED <<matched, nodes, typeExports, file>>
        ELSE \E found \in GlobResults, hostWrites \in BOOLEAN :
                LET dirFiles == SelectSeq(found, NotTest)
                IN  /\ matched' = found
                    /\ nodes' = << [node |-> "let", name |-> IMPORT_NAME, source |-> <<>>] >>
                                    \o AllFileNodes(dirFiles, source)
                    /\ typeExports' = [n \in 1..Len(dirFiles) |->
                                            TypeExport(filePathToVarName(dirFiles[n], source))]
                    /\ file' = IF hostWrites
                               THEN [kind |-> "declaration",
                                     name |-> <<"i", "m", "p", "o", "r", "t", "-", "d", "i", "r", "-">>
                                              \o IMPORT_NAME \o <<".", "d", ".", "t", "s">>,
                                     text |-> generateTypes(source, typeExports')]
                               ELSE file
                    /\ pc' = "replaced"
    /\ UNCHANGED <<command, currentBranch, branchList, gitLog, grepMemo,
                   exitCode, hook, data, from, to, stdout, commits, j,
                   releaseCommits, k, answer, calls, console, loaded,
                   missingCommits, run, runs>>

NextImportDir == ImportDeclaration

SpecImportDir == InitImportDir /\ [][NextImportDir]_vars

-----------------------------------------------------------------------------
(* Properties.                                                             *)

\* the isCommitInRef calls made for the commit at index n, in order
RefCalls(n) ==
    LET ForCommit(c) == c.cmd = "isCommitInRef" /\ c.at = n
    IN  SelectSeq(calls, ForCommit)

\* the commit at index n went through every check of its pass
Complete(n) ==
    /\ n \in 1..Len(commits)
    /\ n < Len(commits) \/ j = 0
    /\ commits[n].type = "ui" \/ commits[n].message # Undefined

\* the message lookup of the commit at index n returned
LookedUp(n) == n \in 1..Len(commits) /\ commits[n].message # Undefined

(* C1: a line that starts with one of the graph-connector prefixes o, " /",
   "|\", "| o", "|\|" yields a record of type ui whose ref is the source
   ref, and no destination ref is queried for it. *)
C1_Prefixes ==
    { <<"o">>, <<" ", "/">>, <<"|", "\\">>, <<"|", " ", "o">>, <<"|", "\\", "|">> }

C1_GraphLinesAreUi ==
    \A n \in 1..Len(commits) :
        (\E p \in C1_Prefixes : StartsWith(stdout[n], p)) =>
            /\ commits[n].line = stdout[n]
            /\ commits[n].type = "ui"
            /\ commits[n].ref = from
            /\ RefCalls(n) = <<>>

C1_Witness ==
    /\ pc = "exited"
    /\ \E n \in 1..Len(commits) :
        StartsWith(stdout[n], <<"o">>) /\ commits[n].type = "ui"
    /\ \E n \in 1..Len(commits) : RefCalls(n) # <<>>

(* C2, as claimed: a non-UI commit whose message contains "update yarn.lock",
   "Version docs" or "update all contributors", or matches the
   merge-into-next pattern, is typed chore. *)
C2_Claimed ==
    \A n \in 1..Len(commits) :
        (/\ LookedUp(n)
         /\ \/ Includes(commits[n].message, <<"u", "p", "d", "a", "t", "e", " ", "y", "a", "r", "n", ".", "l", "o", "c", "k">>)
            \/ Includes(commits[n].message, <<"V", "e", "r", "s", "i", "o", "n", " ", "d", "o", "c", "s">>)
            \/ Includes(commits[n].message, <<"u", "p", "d", "a", "t", "e", " ", "a", "l", "l", " ", "c", "o", "n", "t", "r", "i", "b", "u", "t", "o", "r", "s">>)
            \/ MergeIntoNext(commits[n].message))
        => commits[n].type = "chore"

(* C2, amended: a non-UI commit whose message contains "chore: update
   yarn.lock", "Version docs" or "chore: update all contributors", or matches
   the merge-into-next pattern, is typed chore and keeps the source ref,
   and no destination ref is queried for it. *)
C2_ChoreMessages ==
    \A n \in 1..Len(commits) :
        (/\ LookedUp(n)
         /\ \/ Includes(commits[n].message, <<"c", "h", "o", "r", "e", ":", " ", "u", "p", "d", "a", "t", "e", " ", "y", "a", "r", "n", ".", "l", "o", "c", "k">>)
            \/ Includes(commits[n].message, <<"V", "e", "r", "s", "i", "o", "n", " ", "d", "o", "c", "s">>)
            \/ Includes(commits[n].message, <<"c", "h", "o", "r", "e", ":", " ", "u", "p", "d", "a", "t", "e", " ", "a", "l", "l", " ", "c", "o", "n", "t", "r", "i", "b", "u", "t", "o", "r", "s">>)
            \/ MergeIntoNext(commits[n].message))
        => /\ commits[n].type = "chore"
           /\ commits[n].ref = from
           /\ RefCalls(n) = <<>>

C2_Witness ==
    /\ pc = "exited"
    /\ \E n \in 1..Len(commits) :
        /\ commits[n].type = "chore"
        /\ Includes(commits[n].message, <<"c", "o", "n", "t", "r", "i", "b", "u", "t", "o", "r", "s">>)
    /\ \E n \in 1..Len(commits) : RefCalls(n) # <<>>

\* a run of digits fills s from position a to position b
C3_Number(s, a, b) == a <= b /\ \A n \in a..b : s[n] \in Digit

\* v<major>.<minor>.<patch>: the letter v and three numbers joined by dots
C3_IsVersion(s) ==
    /\ Len(s) >= 6
    /\ s[1] = "v"
    /\ \E p, q \in 1..Len(s) :
        /\ p < q
        /\ s[p] = "."
        /\ s[q] = "."
        /\ C3_Number(s, 2, p - 1)
        /\ C3_Number(s, p + 1, q - 1)
        /\ C3_Number(s, q + 1, Len(s))

(* C3: a non-UI, non-chore commit whose message is v<major>.<minor>.<patch>
   is typed tag, its ref is the message, and no destination ref is queried
   for it. *)
C3_VersionsAreTags ==
    \A n \in 1..Len(commits) :
        (LookedUp(n) /\ commits[n].type # "chore" /\ C3_IsVersion(commits[n].message))
        => /\ commits[n].type = "tag"
           /\ commits[n].ref = commits[n].message
           /\ RefCalls(n) = <<>>

\* the answer the repository gave for a destination ref and a pattern
Found(ref, pattern) ==
    \E m \in grepMemo : m.ref = ref /\ m.pattern = pattern /\ m.found

\* the destination refs, by index, whose history has the sanitized message
C4_Hits(message) ==
    {m \in 1..Len(to) : Found(to[m], sanitizeMessage(message))}

(* C4: for a commit that is not ui, chore or tag, every destination ref is
   queried, in the order given and without a break; the type stays commit
   and the ref ends as the last destination ref whose history has the
   sanitized message, or as the source ref when none has. *)
C4_LastMatchWins ==
    \A n \in 1..Len(commits) :
        (Complete(n) /\ commits[n].type \notin {"ui", "chore", "tag"}) =>
            LET queried == RefCalls(n)
                pattern == sanitizeMessage(commits[n].message)
                hits == C4_Hits(commits[n].message)
            IN  /\ commits[n].type = "commit"
                /\ Len(queried) = Len(to)
                /\ \A m \in 1..Len(to) :
                    /\ queried[m].ref = to[m]
                    /\ queried[m].arg = pattern
                /\ commits[n].ref =
                    IF hits = {} THEN from
                    ELSE to[CHOOSE m \in hits : \A x \in hits : x <= m]

C4_Witness ==
    /\ pc = "exited"
    /\ Len(to) = 2
    /\ \E n \in 1..Len(commits) :
        /\ Complete(n)
        /\ commits[n].type = "commit"
        /\ C4_Hits(commits[n].message) = {1}
        /\ commits[n].ref = to[1]
    /\ \E n \in 1..Len(commits) :
        /\ Complete(n)
        /\ commits[n].type = "commit"
        /\ C4_Hits(commits[n].message) = {1, 2}
        /\ commits[n].ref = to[2]

\* the checks of a pass in their order, for a commit that went through
\* them: the first check that matches decides the type, and the commands of
\* the later checks are not run
C5_Order(n) ==
    LET c == commits[n]
        lookup == \E x \in 1..Len(calls) :
                    calls[x].cmd = "getCommitMessage" /\ calls[x].at = n
    IN  IF \E p \in C1_Prefixes : StartsWith(c.line, p)
        THEN c.type = "ui" /\ ~lookup /\ RefCalls(n) = <<>>
        ELSE IF isCommitChore(c.message)
        THEN c.type = "chore" /\ lookup /\ RefCalls(n) = <<>>
        ELSE IF ANNOTATED_TAG_MESSAGE(c.message)
        THEN c.type = "tag" /\ lookup /\ RefCalls(n) = <<>>
        ELSE c.type = "commit" /\ lookup /\ RefCalls(n) # <<>>

\* a record typed ui, chore or tag keeps its type and its ref in a step
C5_Settled ==
    \A n \in 1..Len(commits) :
        commits[n].type \in {"ui", "chore", "tag"} =>
            /\ n <= Len(commits')
            /\ commits'[n].type = commits[n].type
            /\ commits'[n].ref = commits[n].ref

(* C5: a line goes through the graph-marker, maintenance-message, release-tag
   and destination checks in this order and stops at the first that matches;
   a record typed ui, chore or tag never changes its type or its ref again,
   in mungeCommits and in the handler after it. *)
C5_ShortCircuit ==
    /\ [](\A n \in 1..Len(commits) : Complete(n) => C5_Order(n))
    /\ [][C5_Settled]_vars

C5_Witness ==
    /\ pc = "exited"
    /\ "No new commits to triage" \in console
    /\ \E n \in 1..Len(commits) : commits[n].type = "chore"
    /\ \E n \in 1..Len(commits) : commits[n].type = "commit" /\ commits[n].ref # from

\* the commits the handler hands to purgeData
C6_Candidates ==
    LET Kept(c) == c.type \notin {"ui", "chore", "tag"}
    IN  SelectSeq(commits, Kept)

\* the keys purgeData must keep: the hash of one of the commits, and not
\* marked needsCherryPick with that commit's ref equal to branch
C6_KeptKeys(d, cs, branch) ==
    {h \in DOMAIN d :
        /\ \E n \in 1..Len(cs) : cs[n].hash = h
        /\ ~(d[h].needsCherryPick /\ \E n \in 1..Len(cs) : cs[n].hash = h /\ cs[n].ref = branch)}

(* C6: the step that calls purgeData(data, commits, branch) leaves in the
   cache exactly the entries it held whose hash is the hash of one of the
   commits and that are not marked needsCherryPick with that commit's ref
   equal to branch; the entries kept keep their values, none is added. *)
C6_PurgeKeeps ==
    [][(Munged /\ command \in TriageCommands) =>
        LET branch == IF command = "triage-main" THEN NEXT ELSE Trim(branchList)
            keys == C6_KeptKeys(data, C6_Candidates, branch)
        IN  /\ DOMAIN data' = keys
            /\ \A h \in keys : data'[h] = data[h]]_vars

C6_Witness ==
    /\ pc = "triage"
    /\ answer = "none"
    /\ file.kind = "object"
    /\ \E h \in DOMAIN file.obj :
        /\ h \notin DOMAIN data
        /\ file.obj[h].needsCherryPick
        /\ \E n \in 1..Len(commits) : commits[n].hash = h /\ commits[n].ref = NEXT
    /\ \E h \in DOMAIN file.obj : h \notin DOMAIN data /\ ~file.obj[h].needsCherryPick

(* C7, as claimed: when the cache file is missing or its content is not a
   JSON object, setupData returns an empty mapping. *)
C7_Claimed == (pc = "fetch" /\ file.kind # "object") => data = <<>>

\* setupData returned: the handler is at its next statement
C7_Returned == pc = "fetch" /\ exitCode = -1 /\ hook

(* C7, amended: setupData never fails its caller, and it returns an empty
   mapping when the cache file is missing or its content does not parse as
   JSON (or is the JSON null or a number); content that parses but is no
   object is not refused: an array yields its elements under their
   indices. *)
C7_LoadNeverFails ==
    /\ [][(pc = "handler" /\ command \in {"triage-main", "triage-next"}) => C7_Returned']_vars
    /\ [](C7_Returned =>
            /\ file.kind \in {"missing", "malformed", "null", "number"} => data = <<>>
            /\ file.kind = "array" =>
                    /\ DOMAIN data = {<<"0">>}
                    /\ data[<<"0">>] = file.arr[1]
            /\ file.kind = "object" => data = file.obj)

C7_Witness == C7_Returned /\ file.kind = "malformed" /\ data = <<>>

(* C8: once setupData has run, the file the process leaves at its exit,
   whether it completed, returned early or died of an external command's
   failure, is the JSON object of the mapping as it was at that moment. *)
C8_ExitWrites ==
    /\ (pc \notin {"cli", "handler", "exited"} /\ command \in {"triage-main", "triage-next"}) => hook
    /\ (pc = "exited" /\ hook) =>
            /\ file.kind = "object"
            /\ file.obj = data
    /\ (pc = "exited" /\ ~hook) => (command = "get-release-commits" \/ exitCode = 1)

C8_Witness ==
    /\ pc = "exited"
    /\ hook
    /\ exitCode = 1
    /\ data # <<>>
    /\ commits # <<>>
    /\ file.obj = data

(* C9: triageCommits stores each decision under the commit's hash before it
   asks about the next commit, and the file left by a session interrupted
   after k - 1 answers holds the decisions of these k - 1 commits. *)
C9_DecisionsKept ==
    (k >= 1 /\ pc \in {"triage", "exited"}) =>
        /\ \A m \in 1..(k - 1) :
            /\ releaseCommits[m].hash \in DOMAIN data
            /\ data[releaseCommits[m].hash].message = releaseCommits[m].message
        /\ (k >= 2 /\ answer \notin {"none", "o", "open"}) =>
                data[releaseCommits[k - 1].hash].needsCherryPick = (answer \in {"", "Y", "y"})
        /\ pc = "exited" =>
                \A m \in 1..(k - 1) :
                    /\ releaseCommits[m].hash \in DOMAIN file.obj
                    /\ file.obj[releaseCommits[m].hash] = data[releaseCommits[m].hash]

C9_Witness ==
    /\ pc = "exited"
    /\ exitCode = 0
    /\ Len(releaseCommits) = 2
    /\ k = 2
    /\ releaseCommits[1].hash \in DOMAIN file.obj
    /\ releaseCommits[2].hash \notin DOMAIN file.obj

(* C10: in both triage directions an empty symmetric difference is fetched
   as the one-element sequence [""], and the handler then reports that the
   branches are the same, clears the cache and classifies nothing. *)
C10_EmptyDifference ==
    (command \in {"triage-main", "triage-next"} /\ gitLog = <<>> /\ stdout # <<>>)
    => /\ stdout = << <<>> >>
       /\ "The branches are the same" \in console
       /\ data = <<>>
       /\ commits = <<>>

\* the destination ref of the triage that runs
C11_Destination == IF command = "triage-main" THEN NEXT ELSE Trim(branchList)

\* the classified records that are of type commit, have no entry in the
\* cache d and are not in the destination
C11_Open(d) ==
    LET Test(c) == c.type = "commit" /\ c.hash \notin DOMAIN d /\ c.ref # C11_Destination
    IN  SelectSeq(commits, Test)

(* C11: the commits handed to triageCommits are, in the order of the
   listing, exactly the classified records of type commit that have no entry
   in the cache as purgeData left it and whose ref is not the destination;
   when the handler reports that nothing is new, no record is of that kind. *)
C11_Presented ==
    [][/\ (pc = "munge" /\ pc' = "triage") =>
            /\ releaseCommits' = C11_Open(data')
            /\ releaseCommits' # <<>>
            /\ k' = 1
       /\ (pc = "munge" /\ "No new commits to triage" \in console') =>
            C11_Open(data') = <<>>]_vars

C11_Witness ==
    /\ pc = "triage"
    /\ k = 1
    /\ answer = "none"
    /\ Len(releaseCommits) = 1
    /\ \E n \in 1..Len(commits) :
        commits[n].type = "commit" /\ commits[n].hash \in DOMAIN data

\* a question of triageCommits is answered in this step (Ctrl-C ends the
\* process with status 0 and no answer)
Answered == pc = "triage" /\ ~(pc' = "exited" /\ exitCode' = 0 /\ k' = k)

(* C12: an answer of "", "Y" or "y" stores needsCherryPick = true under the
   hash of the commit asked about, and every other answer but "o" and
   "open" stores needsCherryPick = false; the message is stored with it and
   the next commit is asked about. *)
C12_YesOrNo ==
    [][(Answered /\ answer' \notin {"o", "open"}) =>
        LET commit == releaseCommits[k]
        IN  /\ commit.hash \in DOMAIN data'
            /\ data'[commit.hash].needsCherryPick = (answer' \in {"", "Y", "y"})
            /\ data'[commit.hash].message = commit.message
            /\ \A h \in DOMAIN data \ {commit.hash} : h \in DOMAIN data' /\ data'[h] = data[h]
            /\ k' = k + 1]_vars

C12_Witness ==
    /\ pc = "exited"
    /\ k = 3
    /\ answer = "n"
    /\ releaseCommits[1].hash # releaseCommits[2].hash
    /\ data[releaseCommits[1].hash].needsCherryPick
    /\ ~data[releaseCommits[2].hash].needsCherryPick

(* C13, as claimed: an answer that is none of "", "Y", "y", "n", "o",
   "open" stores nothing, and the same commit is asked about again. *)
C13_Reprompts ==
    [][(Answered /\ answer' \notin {"", "Y", "y", "n", "o", "open"}) =>
        /\ data' = data
        /\ k' = k
        /\ pc' = "triage"]_vars

(* C13, amended: an answer that is none of "", "Y", "y", "n", "o", "open"
   is not an error and is not asked again: it is stored as a decision
   against the cherry pick, nothing is reported, and triageCommits goes on
   to the next commit, or returns with status 0 after the last one. *)
C13_TakenAsNo ==
    [][(Answered /\ answer' \notin {"", "Y", "y", "n", "o", "open"}) =>
        /\ releaseCommits[k].hash \in DOMAIN data'
        /\ ~data'[releaseCommits[k].hash].needsCherryPick
        /\ console' = console
        /\ IF k < Len(releaseCommits)
           THEN pc' = "triage" /\ exitCode' = exitCode
           ELSE pc' = "exited" /\ exitCode' = 0]_vars

C13_Witness ==
    /\ pc = "triage"
    /\ k = 2
    /\ answer = "maybe"
    /\ releaseCommits[1].hash \in DOMAIN data
    /\ ~data[releaseCommits[1].hash].needsCherryPick

(* C14: an answer of "o" or "open" leaves the cache as it is and the same
   commit is asked about again; for a commit without a PR reference this is
   reported and the triage goes on, and for a commit with one the triage
   goes on unless the external command that opens the PR fails, which ends
   the run with status 1 as any failure of an external command does. *)
C14_OpenKeepsCache ==
    [][(Answered /\ answer' \in {"o", "open"}) =>
        /\ data' = data
        /\ k' = k
        /\ releaseCommits' = releaseCommits
        /\ IF releaseCommits[k].pr = Undefined
           THEN /\ "There's no PR for this commit" \in console'
                /\ pc' = "triage"
           ELSE /\ console' = console
                /\ pc' = "triage" \/ (pc' = "exited" /\ exitCode' = 1)]_vars

C14_Witness ==
    /\ pc = "triage"
    /\ answer \in {"o", "open"}
    /\ "There's no PR for this commit" \in console
    /\ releaseCommits[k].pr = Undefined
    /\ k = 2
    /\ releaseCommits[1].pr # Undefined

(* C15: when nothing is left to triage the listing holds every classified
   record, one per line of the symmetric difference; a record of type commit
   whose ref is not the destination is green when the cache marks it
   needsCherryPick, dim red when the cache marks it otherwise and yellow
   when the cache has no entry for it; a record of type commit that is in
   the destination keeps the color of the destination, and ui, chore and
   tag records are dim. *)
C15_Listing ==
    "No new commits to triage" \in console =>
        /\ Len(commits) = Len(stdout)
        /\ \A n \in 1..Len(commits) :
            LET c == commits[n]
            IN  /\ c.line = stdout[n]
                /\ c.pretty =
                    IF c.type \in {"ui", "chore", "tag"} THEN "dim"
                    ELSE IF c.ref = C11_Destination THEN "dim.blue"
                    ELSE IF c.hash \notin DOMAIN data THEN "yellow"
                    ELSE IF data[c.hash].needsCherryPick THEN "green"
                    ELSE "dim.red"

C15_Witness ==
    /\ "No new commits to triage" \in console
    /\ \E n \in 1..Len(commits) : commits[n].pretty = "green"
    /\ \E n \in 1..Len(commits) : commits[n].pretty = "dim.red"

(* C16: purgeData applied again to the cache it left, with the same commits
   and the same branch, changes nothing. *)
C16_PurgeIdempotent ==
    [][(Munged /\ command \in {"triage-main", "triage-next"}) =>
        purgeData(data', C6_Candidates, C11_Destination) = data']_vars

C16_Witness ==
    /\ pc = "triage"
    /\ answer = "none"
    /\ file.kind = "object"
    /\ Cardinality(DOMAIN file.obj) = 2
    /\ Hash("9") \in DOMAIN file.obj
    /\ Cardinality(DOMAIN data) = 1

(* C17: the mapping setupData loads from the file the exit handler wrote is
   the mapping the exit handler was given: the same hashes, each with the
   same message and the same needsCherryPick. The file the triage runs are
   given to hold at their exit is what JSON.parse reads from the text
   written. *)
C17_RoundTrip ==
    /\ pc \in {"exited", "loaded"} => file = ExitHook(data)
    /\ pc = "loaded" => loaded = data

C17_Witness ==
    /\ pc = "loaded"
    /\ Cardinality(DOMAIN loaded) = 2
    /\ \E h \in DOMAIN loaded : loaded[h].message = MSG_REVERT /\ loaded[h].needsCherryPick
    /\ \E h \in DOMAIN loaded : loaded[h].message = MSG_SKIP /\ ~loaded[h].needsCherryPick

RECURSIVE C18_Escaped(_)
\* a message with a backslash before every "[" and every "]"
C18_Escaped(message) ==
    IF message = <<>> THEN <<>>
    ELSE (IF Head(message) \in {"[", "]"} THEN <<"\\", Head(message)>> ELSE <<Head(message)>>)
            \o C18_Escaped(Tail(message))

(* C18: the pattern of every destination-ref query is the message of the
   commit with a backslash before every "[" and every "]" and no other
   change. *)
C18_EveryBracket ==
    \A x \in 1..Len(calls) :
        calls[x].cmd = "isCommitInRef" =>
            calls[x].arg = C18_Escaped(commits[calls[x].at].message)

\* whether a line has a run of nine word characters
C19_HasToken(line) ==
    \E n \in 1..Len(line) :
        n + 8 <= Len(line) /\ \A m \in n..(n + 8) : line[m] \in Word

(* C19: parseCommit raises no error: each line with a run of nine word
   characters yields that run as hash, the text after the character that
   follows it as message and the digits of the first #<digits> of the
   message as pr, and a line without such a run yields a null result and
   the lines after it are parsed. *)
C19_NullWithoutToken ==
    command = COMPARE =>
        /\ "TypeError" \notin console
        /\ \A n \in 1..Len(missingCommits) :
            LET line == Missing(stdout)[n]
                commit == missingCommits[n]
                first == CHOOSE x \in 1..Len(line) :
                            /\ C19_HasToken(SubSeq(line, x, x + 8))
                            /\ ~C19_HasToken(SubSeq(line, 1, x + 7))
            IN  /\ C19_HasToken(line)
                /\ commit.hash = SubSeq(line, first, first + 8)
                /\ commit.message = SubSeq(line, first + 10, Len(line))
                /\ commit.pr = PR(commit.message)

\* the number of branches `git branch --list release/*` printed, one a line
C20_ReleaseBranches == Cardinality({n \in 1..Len(branchList) : branchList[n] = "\n"})

\* the current branch is branch-strategy-triage and one release branch exists
C20_Admitted ==
    /\ currentBranch = TRIAGE_BRANCH \o <<"\n">>
    /\ C20_ReleaseBranches = 1

\* no subcommand handler has run
C20_NoHandler ==
    /\ ~hook
    /\ data = <<>>
    /\ gitLog = <<>>
    /\ stdout = <<>>
    /\ commits = <<>>
    /\ calls = <<>>

(* C20: when the current branch is not branch-strategy-triage, or no
   release branch or more than one exists, the CLI exits with status 1 and
   no subcommand handler runs; otherwise the validation passes and hands
   over to the subcommand. *)
C20_Preconditions ==
    /\ [][pc = "cli" =>
            IF C20_Admitted' THEN pc' = "handler" /\ exitCode' = -1
            ELSE pc' = "exited" /\ exitCode' = 1]_vars
    /\ []((pc # "cli" /\ ~C20_Admitted) => (pc = "exited" /\ exitCode = 1 /\ C20_NoHandler))

C20_Witness ==
    /\ pc = "exited"
    /\ exitCode = 1
    /\ currentBranch = TRIAGE_BRANCH \o <<"\n">>
    /\ C20_ReleaseBranches = 2
    /\ "There's more than one release branch" \in console

\* both invocations have exited
C21_BothExited == DOMAIN runs = {1, 2} /\ \A p \in {1, 2} : runs[p].pc = "exited"

(* C21: two invocations may hold the same cache file at once, and when both
   have exited the file is the mapping of the one that exited last, whatever
   the other recorded. *)
C21_LastWriterWins ==
    C21_BothExited =>
        \E last \in {1, 2} :
            /\ runs[last].rank = 2
            /\ runs[3 - last].rank = 1
            /\ file.kind = "object"
            /\ file.obj = runs[last].data

C21_Witness ==
    /\ C21_BothExited
    /\ \E first \in {1, 2} :
        /\ runs[first].rank = 1
        /\ \E h \in DOMAIN runs[first].data :
            /\ h \notin DOMAIN runs[3 - first].data
            /\ h \notin DOMAIN file.obj
        /\ \E h \in DOMAIN runs[3 - first].data : h \notin DOMAIN runs[first].data

\* the name the claim gives a file: the path below 'src/', without a final
\* .js or .ts, every character that is no letter or digit replaced by "_"
C22_Name(filePath) ==
    LET rest == SubSeq(filePath, 5, Len(filePath))
        stem == IF Len(rest) >= 3
                   /\ rest[Len(rest) - 2] = "."
                   /\ SubSeq(rest, Len(rest) - 1, Len(rest)) \in {<<"j", "s">>, <<"t", "s">>}
                THEN SubSeq(rest, 1, Len(rest) - 3) ELSE rest
    IN  [n \in 1..Len(stem) |->
            IF stem[n] \in Digit \cup Lower \cup Upper THEN stem[n] ELSE "_"]

(* C22: for the files glob.sync returned whose path has no ".test.", the
   properties assigned on the import object are, file by file, the names
   made of the path below the static part of the glob, without its .js or
   .ts extension and with "_" for every character that is no letter or
   digit; the declaration file, when it is written, lists the same names,
   one per file, each as "<name>: any". *)
C22_PropertyNames ==
    pc = "replaced" =>
        LET NoTest(f) == \A n \in 1..(Len(f) - 5) : SubSeq(f, n, n + 5) # <<".", "t", "e", "s", "t", ".">>
            files == SelectSeq(matched, NoTest)
            IsAssignment(x) == x.node = "assignment"
            assigned == SelectSeq(nodes, IsAssignment)
        IN  /\ Len(assigned) = Len(files)
            /\ Len(typeExports) = Len(files)
            /\ \A n \in 1..Len(files) :
                /\ assigned[n].name = C22_Name(files[n])
                /\ typeExports[n] = C22_Name(files[n]) \o <<":", " ", "a", "n", "y">>
            /\ file # NoFile =>
                    \E a, b \in 0..Len(file.text) :
                        SubSeq(file.text, a + 1, b)
                            = Join([n \in 1..Len(files) |->
                                        C22_Name(files[n]) \o <<":", " ", "a", "n", "y">>])

(* C23: mungeCommits raises no error whatever the lines of the listing: no
   TypeError is ever reported, and no run ends in failure on a line that is
   not a UI line and holds no 40-character hash between whitespace (the
   empty line of an empty symmetric difference among them); such a line
   gets its record like any other. *)
C23_NoCrash ==
    /\ "TypeError" \notin console
    /\ \A n \in 1..Len(commits) :
            LET line == commits[n].line
                Marked == \E m \in 1..Len(MARKS) : StartsWith(line, MARKS[m])
                Hashed == \E a \in 1..(Len(line) - HashWidth - 1) :
                            /\ line[a] \in Space
                            /\ line[a + HashWidth + 1] \in Space
                            /\ \A b \in (a + 1)..(a + HashWidth) : line[b] \in Word
            IN  (~Marked /\ ~Hashed) => ~(n = Len(commits) /\ pc = "exited" /\ exitCode = 1)

\* triageCommits has asked about every commit it was given, and returned
C24_Finished ==
    /\ command \in TriageCommands
    /\ pc = "exited"
    /\ exitCode = 0
    /\ releaseCommits # <<>>
    /\ k = Len(releaseCommits) + 1

(* C24: when triageCommits has finished for all the commits it was given,
   the cache, in memory and as written at exit, holds for every one of
   their hashes one entry, with the message of the commit; and the same
   command run again on the unchanged repository hands no commit to
   triageCommits, asks no question, and, unless an external command fails,
   reports that there are no new commits to triage. *)
C24_TriagedOnce ==
    /\ (run = 1 /\ C24_Finished) =>
            /\ file.kind = "object"
            /\ file.obj = data
            /\ \A n \in 1..Len(releaseCommits) :
                /\ releaseCommits[n].hash \in DOMAIN data
                /\ data[releaseCommits[n].hash].message = releaseCommits[n].message
    /\ run = 2 =>
            /\ pc # "triage"
            /\ releaseCommits = <<>>
            /\ answer = "none"
            /\ (pc = "exited" /\ exitCode = 0) => "No new commits to triage" \in console

\* the second run has listed two commits decided in the first
C24_Witness ==
    /\ run = 2
    /\ pc = "exited"
    /\ exitCode = 0
    /\ "No new commits to triage" \in console
    /\ Len(commits) = 2
    /\ \A n \in 1..2 : commits[n].type = "commit" /\ commits[n].hash \in DOMAIN data
    /\ commits[1].hash # commits[2].hash

(* C25: in the listing of a triage with nothing new, every record of type
   commit whose ref is not the destination has an entry in the cache, and
   no record is yellow. *)
C25_NoneUndecided ==
    "No new commits to triage" \in console =>
        \A n \in 1..Len(commits) :
            /\ (commits[n].type = "commit" /\ commits[n].ref # C11_Destination)
                    => commits[n].hash \in DOMAIN data
            /\ commits[n].pretty # "yellow"

\* a listing with a commit decided against and a commit that has landed
C25_Witness ==
    /\ "No new commits to triage" \in console
    /\ Len(commits) = 2
    /\ commits[1].type = "commit"
    /\ commits[1].ref # C11_Destination
    /\ ~data[commits[1].hash].needsCherryPick
    /\ commits[2].type = "commit"
    /\ commits[2].ref = C11_Destination

\* the handler went on after mungeCommits returned to it
C26_Returned ==
    \/ pc = "triage"
    \/ /\ pc = "exited"
       /\ exitCode = 0
       /\ stdout # <<>>
       /\ "The branches are the same" \notin console

(* C26: the records of mungeCommits are, index by index, the lines it was
   given, each record keeping its line as it was; when mungeCommits has
   returned there is one record per line; the external commands are run
   line by line, and when the record of a later line exists every command
   of the earlier line has returned (its message lookup and, for a record
   of type commit, the query of every destination ref); the listing of a
   triage with nothing new holds the records in the order of the lines. *)
C26_LineByLine ==
    /\ Len(commits) <= Len(stdout)
    /\ \A n \in 1..Len(commits) : commits[n].line = stdout[n]
    /\ C26_Returned => Len(commits) = Len(stdout)
    /\ \A x, y \in 1..Len(calls) : x < y => calls[x].at <= calls[y].at
    /\ \A x \in 1..Len(calls) : calls[x].at \in 1..Len(commits)
    /\ \A n \in 1..(Len(commits) - 1) :
            /\ \A x \in 1..Len(calls) : calls[x].at = n => calls[x].ok
            /\ commits[n].type # "ui" => commits[n].message # Undefined
            /\ commits[n].type = "commit" => Len(RefCalls(n)) = Len(to)

\* two different commits, each looked up in two destination refs
C26_Witness ==
    /\ pc = "exited"
    /\ exitCode = 0
    /\ Len(to) = 2
    /\ Len(commits) = 2
    /\ commits[1].line # commits[2].line
    /\ Len(RefCalls(1)) = 2
    /\ Len(RefCalls(2)) = 2
    /\ Len(calls) = 6

(* C27: a record is typed tag only when its message is the letter v and
   three numbers joined by literal dots; a message with other separators,
   v1x2y3 for one, is never typed tag. *)
C27_TagsAreVersions ==
    \A n \in 1..Len(commits) :
        commits[n].type = "tag" =>
            /\ commits[n].message # MSG_TAG_LOOSE
            /\ C3_IsVersion(commits[n].message)

====
